---- MODULE Spec2Model ----
(***************************************************************************)
(* Model of elf.parallel.operations.apply_operation: a blockwise, thread-  *)
(* pool driven elementwise binary operation over array-like operands.      *)
(*                                                                         *)
(* One behaviour of the model is one call of apply_operation.  The inputs  *)
(* of the call (operands, their kinds and shapes, block shape, mask,       *)
(* output target, operation, worker count, verbosity) are chosen in Init.  *)
(* The main thread walks validate -> blocking -> map -> (iterate) ->       *)
(* shutdown -> returned / raised; the block tasks run concurrently on at   *)
(* most n_threads workers and are started in submission order.             *)
(***************************************************************************)
EXTENDS Integers, Sequences, FiniteSets, TLC

\* ---------------------------------------------------------------- bounds
MaxExtent == 3      \* largest extent of the domain along one axis
MaxCells == 4       \* largest number of positions of the domain
MaxBlock == 2       \* largest entry of the block shape
MaxThreads == 2     \* largest worker count
MaxFailures == 1    \* largest number of block tasks that raise in one call

\* ------------------------------------------------------------ index math
RECURSIVE Product(_)
Product(s) == IF Len(s) = 0 THEN 1 ELSE Head(s) * Product(Tail(s))

Min(a, b) == IF a < b THEN a ELSE b

\* shapes of rank 2 and 3 with at most MaxCells positions
Ranks == {2, 3}
Shapes == {s \in UNION {[1..r -> 1..MaxExtent] : r \in Ranks} : Product(s) <= MaxCells}

\* block shapes for shape s: positive entries, same rank, none beyond the extent
BlockShapes(s) == {b \in [1..Len(s) -> 1..MaxBlock] : \A i \in 1..Len(s) : b[i] <= s[i]}

\* block shapes a call must be refused with: an entry that is zero or negative,
\* or a rank other than the rank of s
InvalidBlockShapes(s) ==
    {[[i \in 1..Len(s) |-> 1] EXCEPT ![1] = 0],
     [[i \in 1..Len(s) |-> 1] EXCEPT ![Len(s)] = 0 - 1],
     [i \in 1..(Len(s) - 1) |-> 1],
     [i \in 1..(Len(s) + 1) |-> 1]}

\* the positions p with lo[i] <= p[i] < hi[i] on every axis i
RECURSIVE Box(_, _)
Box(lo, hi) ==
    IF Len(lo) = 0 THEN {<<>>}
    ELSE {<<h>> \o t : h \in Head(lo)..(Head(hi) - 1), t \in Box(Tail(lo), Tail(hi))}

\* all positions of an array of shape s (0-based coordinates)
Domain(s) == Box([i \in 1..Len(s) |-> 0], s)

\* row-major linear index of position p in shape s
RECURSIVE Lin(_, _)
Lin(p, s) == IF Len(s) = 0 THEN 0
             ELSE Head(p) * Product(Tail(s)) + Lin(Tail(p), Tail(s))

NoBlock == [p \in {} |-> 0]

\* ------------------------------------------------- nt.blocking (nifty.tools)
\* the roi begin passed to nt.blocking
RoiBegin == <<0, 0, 0>>

\* nt.blocking rejects a roi whose begin and end differ in rank
BlockingValid(roiBegin, roiEnd, blockShape) ==
    /\ Len(roiBegin) = Len(roiEnd)
    /\ Len(blockShape) = Len(roiEnd)

\* number of blocks along each axis
BlocksPerAxis(roiBegin, roiEnd, blockShape) ==
    [d \in 1..Len(roiEnd) |->
        LET dimSize == roiEnd[d] - roiBegin[d]
        IN  (dimSize \div blockShape[d]) + (IF dimSize % blockShape[d] # 0 THEN 1 ELSE 0)]

\* blocking.numberOfBlocks
NumberOfBlocks(roiBegin, roiEnd, blockShape) ==
    Product(BlocksPerAxis(roiBegin, roiEnd, blockShape))

\* strides of the block grid, last axis fastest
BlocksPerAxisStrides(bpa) ==
    [d \in 1..Len(bpa) |-> Product(SubSeq(bpa, d + 1, Len(bpa)))]

\* grid coordinate of block blockIndex: successive division by the strides
RECURSIVE BlockCoord(_, _, _)
BlockCoord(index, strides, d) ==
    IF d > Len(strides) THEN <<>>
    ELSE LET blockAxisIndex == index \div strides[d]
         IN  <<blockAxisIndex>> \o
             BlockCoord(index - blockAxisIndex * strides[d], strides, d + 1)

\* begin and end of block blockIndex, clipped to the roi
BlockAt(blockIndex, roiBegin, roiEnd, blockShape) ==
    LET bpa == BlocksPerAxis(roiBegin, roiEnd, blockShape)
        coord == BlockCoord(blockIndex, BlocksPerAxisStrides(bpa), 1)
    IN  [begin |-> [d \in 1..Len(roiEnd) |-> coord[d] * blockShape[d] + roiBegin[d]],
         end   |-> [d \in 1..Len(roiEnd) |->
                      Min((coord[d] + 1) * blockShape[d] + roiBegin[d], roiEnd[d])]]

\* the object nt.blocking(roiBegin, roiEnd, blockShape) returns
Blocking(roiBegin, roiEnd, blockShape) ==
    [numberOfBlocks |-> NumberOfBlocks(roiBegin, roiEnd, blockShape),
     blocks |-> [k \in 0..(NumberOfBlocks(roiBegin, roiEnd, blockShape) - 1) |->
                   BlockAt(k, roiBegin, roiEnd, blockShape)]]

\* no blocking object yet
NoBlocking == [numberOfBlocks |-> 0, blocks |-> <<>>]

\* blocking.getBlock(block_id)
GetBlock(blk, block_id) == blk.blocks[block_id]

\* BB with every slice starting at 0
BB_FromOrigin(block) == Box([d \in 1..Len(block.begin) |-> 0], block.end)

\* bb = tuple(slice(beg, end) ...): the positions selected by the bounding box
BB(block) == Box(block.begin, block.end)

\* ------------------------------------------------------------ operations
\* Operation with minimum bound to the numpy function of add
Operation_MinimumAsAdd(op, a, b) ==
    CASE op = "add" -> a + b
      [] op = "minimum" -> a + b

\* the numpy functions bound by _generate_operation (integer operands)
Operation(op, a, b) ==
    CASE op = "add" -> a + b
      [] op = "subtract" -> a - b
      [] op = "multiply" -> a * b
      [] op = "greater" -> IF a > b THEN 1 ELSE 0
      [] op = "greater_equal" -> IF a >= b THEN 1 ELSE 0
      [] op = "less" -> IF a < b THEN 1 ELSE 0
      [] op = "less_equal" -> IF a <= b THEN 1 ELSE 0
      [] op = "minimum" -> IF a < b THEN a ELSE b
      [] op = "maximum" -> IF a > b THEN a ELSE b

\* the operations a call of the model may be made with
OpNames == {"add", "minimum"}

\* ---------------------------------------------------------------- state
VARIABLES
    x_kind,       \* "ndarray": x[bb] is a view of x; "dataset": x[bb] is a copy (h5py, zarr)
    y_kind,       \* "scalar", "ndarray", "dataset" (array-like, not a numpy array), "other"
    y_scalar,     \* the value of y when y is a scalar
    shape,        \* x.shape
    y_shape,      \* y.shape when y is array-like
    y_ref,        \* the buffer an array y refers to: "y", or "x" when y is x
    block_shape,  \* the block_shape argument
    has_mask,     \* mask is not None
    out_ref,      \* the buffer out refers to: "x" (out is None or out is x), "out",
                  \* or "y" when out is y
    operation,    \* name of the numpy function
    n_threads,    \* worker count
    verbose,      \* verbosity flag
    mem,          \* contents of the buffers "x", "y", "mask", "out"
    mem0,         \* contents of the buffers before the call
    pc,           \* position of the calling thread
    err,          \* the exception raised to the caller, "none" if none
    blocking,     \* the blocking object, NoBlocking before it exists
    n_blocks,     \* blocking.numberOfBlocks, 0 before the blocking exists
    task,         \* block_id -> state of the block's task (future and locals)
    res_idx,      \* number of results the verbose path has consumed from tp.map
    wlog,         \* writes done by tasks: records [t, buf, pos, stage]
    n_raised,     \* number of tasks that raised so far
    FILE_CONSTRUCTORS,  \* elf.io.extensions: lower-cased extension -> constructor
    GROUP_LIKE,         \* elf.io.extensions: the registered group types
    DATASET_LIKE,       \* elf.io.extensions: the registered dataset types
    first_reg,          \* lower-cased extension -> constructor of the first call naming it
    n_calls             \* number of register_filetype calls so far

\* the state of elf.io.extensions
registry == <<FILE_CONSTRUCTORS, GROUP_LIKE, DATASET_LIKE, first_reg, n_calls>>

vars == <<x_kind, y_kind, y_scalar, shape, y_shape, y_ref, block_shape, has_mask, out_ref,
          operation, n_threads, verbose, mem, mem0, pc, err, blocking, n_blocks,
          task, res_idx, wlog, n_raised,
          FILE_CONSTRUCTORS, GROUP_LIKE, DATASET_LIKE, first_reg, n_calls>>

inputs == <<x_kind, y_kind, y_scalar, shape, y_shape, y_ref, block_shape, has_mask, out_ref,
            operation, n_threads, verbose, mem0>>

Buffers == {"x", "y", "mask", "out"}

\* --------------------------------------------------------- initial state
\* contents the operands of a call are filled with
XFill(s) == [p \in Domain(s) |-> Lin(p, s) + 1]
YFill(s) == [p \in Domain(s) |-> Product(s) - Lin(p, s)]
OutFill(s) == [p \in Domain(s) |-> 0 - (Lin(p, s) + 1)]
MaskFill(s, trueAt) == [p \in Domain(s) |-> IF p \in trueAt THEN Lin(p, s) + 1 ELSE 0]

\* the sets of true positions of the masks of a call: the positions before, or
\* from, some position in row-major order (none, all, and every split between)
Masks(s) == UNION {{{p \in Domain(s) : Lin(p, s) < k}, {p \in Domain(s) : Lin(p, s) >= k}} :
                     k \in 0..Product(s)}

\* a shape of the same rank as s that differs from s
OtherShape(s) == [s EXCEPT ![Len(s)] = s[Len(s)] + 1]

\* BlockShapeValid without the check of the rank
BlockShapeValid_EntriesOnly(xs, bs) == \A i \in 1..Len(bs) : bs[i] > 0

\* the block shape get_block_shape lets through: the rank of x.shape and
\* positive entries
BlockShapeValid(xs, bs) ==
    /\ Len(bs) = Len(xs)
    /\ \A i \in 1..Len(bs) : bs[i] > 0

\* the call gets as far as running block tasks
Executes(yk, xs, ys) == (yk = "scalar" \/ (yk = "ndarray" /\ xs = ys)) /\ Len(xs) = Len(RoiBegin)

\* the options of the calls that stop before any block task
DefaultOptions ==
    /\ x_kind = "ndarray"
    /\ operation = "add"
    /\ n_threads = 1
    /\ ~verbose
    /\ has_mask => \A p \in DOMAIN mem["mask"] : mem["mask"][p] # 0

\* lines 15-20: the registry when the module is loaded
RegistryInit ==
    /\ FILE_CONSTRUCTORS = <<>>
    /\ GROUP_LIKE = <<>>
    /\ DATASET_LIKE = <<"ndarray">>
    /\ first_reg = <<>>
    /\ n_calls = 0

\* the calls with y being x itself: minimum(x, x) on the default output
YIsX ==
    /\ y_kind = x_kind
    /\ y_shape = shape
    /\ operation = "minimum"
    /\ out_ref = "x"

\* the calls with out being the array y: add(x, y, out=y)
OutIsY ==
    /\ y_kind \in {"ndarray", "dataset"}
    /\ y_ref = "y"
    /\ y_shape = shape
    /\ operation = "add"

Init ==
    /\ x_kind \in {"ndarray", "dataset"}
    /\ y_kind \in {"scalar", "ndarray", "dataset", "other"}
    /\ shape \in Shapes
    /\ y_scalar = IF y_kind = "scalar" THEN 2 ELSE 0
    /\ y_shape \in IF y_kind \in {"ndarray", "dataset"}
                   THEN {shape, OtherShape(shape)} ELSE {<<>>}
    /\ block_shape \in BlockShapes(shape) \cup InvalidBlockShapes(shape)
    /\ has_mask \in BOOLEAN
    /\ y_ref \in {"y", "x"}
    /\ y_ref = "x" => YIsX
    /\ out_ref \in {"x", "out", "y"}
    /\ out_ref = "y" => OutIsY
    /\ operation \in OpNames
    /\ n_threads \in 1..MaxThreads
    /\ verbose \in BOOLEAN
    /\ \E trueAt \in Masks(shape) :
          /\ has_mask \/ trueAt = {}
          /\ mem = [b \in Buffers |->
                CASE b = "x" -> XFill(shape)
                  [] b = "y" -> IF y_kind \in {"ndarray", "dataset"} /\ y_ref = "y"
                                THEN YFill(y_shape) ELSE NoBlock
                  [] b = "mask" -> IF has_mask THEN MaskFill(shape, trueAt) ELSE NoBlock
                  [] b = "out" -> IF out_ref = "out" THEN OutFill(shape) ELSE NoBlock]
    /\ mem0 = mem
    /\ (Executes(y_kind, shape, y_shape) /\ BlockShapeValid(shape, block_shape))
          \/ DefaultOptions
    /\ pc = "validate"
    /\ err = "none"
    /\ blocking = NoBlocking
    /\ n_blocks = 0
    /\ task = <<>>
    /\ res_idx = 0
    /\ wlog = {}
    /\ n_raised = 0
    /\ RegistryInit

\* ------------------------------------------------- apply_operation: main
\* CheckOperand without the comparison of the shapes
CheckOperand_NoShapeCheck(yk, xs, ys) ==
    IF yk = "scalar" THEN "ok"
    ELSE IF yk # "ndarray" THEN "unsupported_operand"
    ELSE "ok"

\* lines 42-49: classification of the second operand
CheckOperand(yk, xs, ys) ==
    IF yk = "scalar" THEN "ok"
    ELSE IF yk # "ndarray" THEN "unsupported_operand"
    ELSE IF xs # ys THEN "shape_mismatch"
    ELSE "ok"

\* lines 39-49: default output and check of the second operand
Validate ==
    /\ pc = "validate"
    /\ LET r == CheckOperand(y_kind, shape, y_shape)
       IN  IF r = "ok"
           THEN /\ pc' = "blocking"
                /\ err' = err
           ELSE /\ pc' = "raised"
                /\ err' = r
    /\ UNCHANGED <<registry, inputs, mem, blocking, n_blocks, task, res_idx, wlog, n_raised>>

\* get_block_shape(x, block_shape) for a block shape given by the caller
get_block_shape(bs) == bs

\* lines 51-57: block shape and blocking
MakeBlocking ==
    /\ pc = "blocking"
    /\ LET bs == get_block_shape(block_shape)
       IN  IF ~BlockShapeValid(shape, block_shape)
           THEN /\ UNCHANGED <<blocking, n_blocks>>
                /\ pc' = "raised"
                /\ err' = "invalid_block_shape"
           ELSE IF BlockingValid(RoiBegin, shape, bs)
           THEN /\ blocking' = Blocking(RoiBegin, shape, bs)
                /\ n_blocks' = blocking'.numberOfBlocks
                /\ pc' = "map"
                /\ err' = err
           ELSE /\ UNCHANGED <<blocking, n_blocks>>
                /\ pc' = "raised"
                /\ err' = "blocking"
    /\ UNCHANGED <<registry, inputs, mem, task, res_idx, wlog, n_raised>>

\* the block of a task and its bounding box
TaskBB(b) == BB(GetBlock(blocking, b))

BlockIds == 0..(n_blocks - 1)

NewTask == [pc |-> "pending", m |-> NoBlock, xx |-> NoBlock, yy |-> NoBlock,
            xx_view |-> FALSE, rd |-> {}, written |-> NoBlock]

\* lines 98-103: tp.map submits one task per block index
Map ==
    /\ pc = "map"
    /\ task' = [b \in BlockIds |-> NewTask]
    /\ pc' = IF verbose /\ n_blocks > 0 THEN "iterate" ELSE "shutdown"
    /\ UNCHANGED <<registry, inputs, mem, err, blocking, n_blocks, res_idx, wlog, n_raised>>

\* ------------------------------------------------------------ block tasks
Running == {"apply", "store"}
Final == {"done", "failed", "cancelled"}

\* a worker thread is free
WorkerFree == Cardinality({b \in DOMAIN task : task[b].pc \in Running}) < n_threads

\* the second operand is an array
ArrayOperand == y_kind # "scalar"

\* the current content of the task's sub-block of x: a view reads x itself
XX(b) == IF task[b].xx_view THEN [p \in TaskBB(b) |-> mem["x"][p]] ELSE task[b].xx

\* the current content of the task's sub-block of y, or the scalar at every position
YY(b) == IF ~ArrayOperand THEN [p \in TaskBB(b) |-> y_scalar]
         ELSE IF y_kind = "ndarray" THEN [p \in TaskBB(b) |-> mem[y_ref][p]]
         ELSE task[b].yy

\* a worker is free and b is the oldest task in the queue
Startable(b) ==
    /\ pc \in {"iterate", "shutdown", "unwind"}
    /\ b \in DOMAIN task
    /\ task[b].pc = "pending"
    /\ \A j \in DOMAIN task : j < b => task[j].pc # "pending"
    /\ WorkerFree

\* m.sum() == 0: the mask block has no true position
MaskEmpty(m) == \A p \in DOMAIN m : ~m[p]

\* MaskBlock that takes only the value 1 for true
MaskBlock_IsOne(b) == [p \in TaskBB(b) |-> mem["mask"][p] = 1]

\* mask[bb].astype('bool')
MaskBlock(b) == [p \in TaskBB(b) |-> mem["mask"][p] # 0]

\* Skip that never returns early
Skip_Never(b) == FALSE

\* the mask gate: the task returns before it loads anything
Skip(b) == has_mask /\ MaskEmpty(MaskBlock(b))

\* lines 60-71 and 79-91: a worker takes the task; bounding box, mask block,
\* return on an empty mask block, else xx = x[bb] (and yy = y[bb])
TaskBegin(b) ==
    /\ Startable(b)
    /\ IF Skip(b)
       THEN task' = [task EXCEPT ![b].m = MaskBlock(b),
                                 ![b].rd = {"mask"},
                                 ![b].pc = "done"]
       ELSE task' = [task EXCEPT
              ![b].m = IF has_mask THEN MaskBlock(b) ELSE NoBlock,
              ![b].xx_view = (x_kind = "ndarray"),
              ![b].xx = IF x_kind = "ndarray" THEN NoBlock
                        ELSE [p \in TaskBB(b) |-> mem["x"][p]],
              ![b].yy = IF ArrayOperand /\ y_kind # "ndarray"
                        THEN [p \in TaskBB(b) |-> mem[y_ref][p]] ELSE NoBlock,
              ![b].rd = (IF has_mask THEN {"mask"} ELSE {})
                        \cup (IF ArrayOperand THEN {"x", "y"} ELSE {"x"}),
              ![b].pc = "apply"]
    /\ UNCHANGED <<registry, inputs, mem, pc, err, blocking, n_blocks, res_idx, wlog, n_raised>>

\* MaskedAssign that overwrites the whole block
MaskedAssign_Everywhere(xx, m, new) == [p \in DOMAIN xx |-> new[p]]

\* xx[m] = new: positions selected by m take the new value, the others keep xx
MaskedAssign(xx, m, new) == [p \in DOMAIN xx |-> IF m[p] THEN new[p] ELSE xx[p]]

\* the writes of task b to buffer buf at the positions ps
Writes(b, buf, ps, stage) == {[t |-> b, buf |-> buf, pos |-> p, stage |-> stage] : p \in ps}

\* lines 72-75 and 92-95: the operation, on the whole block or on the masked positions
TaskApply(b) ==
    /\ b \in DOMAIN task
    /\ task[b].pc = "apply"
    /\ LET new == [p \in TaskBB(b) |-> Operation(operation, XX(b)[p], YY(b)[p])]
       IN  IF ~has_mask
           THEN /\ task' = [task EXCEPT ![b].xx = new, ![b].xx_view = FALSE,
                                        ![b].pc = "store"]
                /\ UNCHANGED <<mem, wlog>>
           ELSE LET merged == MaskedAssign(XX(b), task[b].m, new)
                    sel == {p \in TaskBB(b) : task[b].m[p]}
                IN  IF task[b].xx_view
                    THEN /\ mem' = [mem EXCEPT !["x"] =
                                      [p \in DOMAIN @ |-> IF p \in sel THEN merged[p] ELSE @[p]]]
                         /\ wlog' = wlog \cup Writes(b, "x", sel, "apply")
                         /\ task' = [task EXCEPT ![b].pc = "store"]
                    ELSE /\ task' = [task EXCEPT ![b].xx = merged, ![b].pc = "store"]
                         /\ UNCHANGED <<mem, wlog>>
    /\ UNCHANGED <<registry, inputs, pc, err, blocking, n_blocks, res_idx, n_raised>>

\* lines 76 and 96: out[bb] = xx
TaskStore(b) ==
    /\ b \in DOMAIN task
    /\ task[b].pc = "store"
    /\ LET blk == XX(b)
       IN  /\ mem' = [mem EXCEPT ![out_ref] =
                        [p \in DOMAIN @ |-> IF p \in TaskBB(b) THEN blk[p] ELSE @[p]]]
           /\ task' = [task EXCEPT ![b].written = blk, ![b].pc = "done"]
           /\ wlog' = wlog \cup Writes(b, out_ref, TaskBB(b), "store")
    /\ UNCHANGED <<registry, inputs, pc, err, blocking, n_blocks, res_idx, n_raised>>

\* a read, the operation or the write of a running task raises
TaskRaise(b) ==
    /\ b \in DOMAIN task
    /\ task[b].pc \in Running
    /\ n_raised < MaxFailures
    /\ task' = [task EXCEPT ![b].pc = "failed"]
    /\ n_raised' = n_raised + 1
    /\ UNCHANGED <<registry, inputs, mem, pc, err, blocking, n_blocks, res_idx, wlog>>

\* ------------------------------------------- consuming the results, exit
\* line 101: list(tqdm(tp.map(...))) takes the next result, in submission order
IterNext ==
    /\ pc = "iterate"
    /\ res_idx < n_blocks
    /\ task[res_idx].pc = "done"
    /\ res_idx' = res_idx + 1
    /\ pc' = IF res_idx + 1 = n_blocks THEN "shutdown" ELSE "iterate"
    /\ UNCHANGED <<registry, inputs, mem, err, blocking, n_blocks, task, wlog, n_raised>>

\* IterRaise that also restores the pre-call contents of the buffers
IterRaise_Rollback ==
    /\ pc = "iterate"
    /\ res_idx < n_blocks
    /\ task[res_idx].pc = "failed"
    /\ task' = [b \in DOMAIN task |->
                  IF b > res_idx /\ task[b].pc = "pending"
                  THEN [task[b] EXCEPT !.pc = "cancelled"] ELSE task[b]]
    /\ err' = "block_task_failure"
    /\ pc' = "unwind"
    /\ mem' = mem0
    /\ UNCHANGED <<registry, inputs, blocking, n_blocks, res_idx, wlog, n_raised>>

\* line 101: the next result is an exception; the iterator cancels the futures
\* it has not yet handed out and the exception leaves the with block
IterRaise ==
    /\ pc = "iterate"
    /\ res_idx < n_blocks
    /\ task[res_idx].pc = "failed"
    /\ task' = [b \in DOMAIN task |->
                  IF b > res_idx /\ task[b].pc = "pending"
                  THEN [task[b] EXCEPT !.pc = "cancelled"] ELSE task[b]]
    /\ err' = "block_task_failure"
    /\ pc' = "unwind"
    /\ UNCHANGED <<registry, inputs, mem, blocking, n_blocks, res_idx, wlog, n_raised>>

\* Shutdown that does not wait for the workers (shutdown(wait=False))
Shutdown_NoWait ==
    /\ pc \in {"shutdown", "unwind"}
    /\ pc' = IF pc = "shutdown" THEN "returned" ELSE "raised"
    /\ UNCHANGED <<registry, inputs, mem, err, blocking, n_blocks, task, res_idx, wlog, n_raised>>

\* lines 99 and 105: leaving the with block joins the workers (shutdown(wait=True)),
\* then the call returns out or lets the pending exception through
Shutdown ==
    /\ pc \in {"shutdown", "unwind"}
    /\ \A b \in DOMAIN task : task[b].pc \in Final
    /\ pc' = IF pc = "shutdown" THEN "returned" ELSE "raised"
    /\ UNCHANGED <<registry, inputs, mem, err, blocking, n_blocks, task, res_idx, wlog, n_raised>>

Next ==
    \/ Validate
    \/ MakeBlocking
    \/ Map
    \/ \E b \in 0..(MaxCells - 1) : TaskBegin(b)
    \/ \E b \in 0..(MaxCells - 1) : TaskApply(b)
    \/ \E b \in 0..(MaxCells - 1) : TaskStore(b)
    \/ \E b \in 0..(MaxCells - 1) : TaskRaise(b)
    \/ IterNext
    \/ IterRaise
    \/ Shutdown

Spec == Init /\ [][Next]_vars

\* ------------------------------------------- elf.io.extensions: registry
MaxCalls == 3       \* largest number of register_filetype calls

\* the constructors and the extension strings of the calls
Constructors == {"z5py", "pyn5", "zarr_open"}
Exts == {".n5", ".N5", ".zarr", ".ZARR"}

\* str.lower() on the extension strings
Lower(ext) ==
    CASE ext = ".N5" -> ".n5"
      [] ext = ".ZARR" -> ".zarr"
      [] OTHER -> ext

\* python values: a string, an object without len(), or a list of values
Str(v) == [kind |-> "str", val |-> v]
Obj(v) == [kind |-> "object", val |-> v]
List(seq) == [kind |-> "list", val |-> seq]

\* the values of the extensions argument: one string, or a list of one or two
ExtArgs == {Str(a) : a \in Exts} \cup {List(<<a>>) : a \in Exts}
              \cup {List(<<a, b>>) : a, b \in Exts}

\* lines 23-33: a string or an object without len() is wrapped in a list
ensure_iterable(item) == IF item.kind \in {"str", "object"} THEN List(<<item.val>>) ELSE item

\* lines 36-44: register_filetype(constructor, extensions, groups, datasets)
register_filetype(constructor, extensions, groups, datasets) ==
    /\ pc = "idle"
    /\ n_calls < MaxCalls
    /\ LET exts == ensure_iterable(ensure_iterable(extensions)).val
           new == {Lower(exts[i]) : i \in {j \in 1..Len(exts) : exts[j] \notin DOMAIN FILE_CONSTRUCTORS}}
           named == {Lower(exts[i]) : i \in 1..Len(exts)}
       IN  /\ FILE_CONSTRUCTORS' =
                [k \in DOMAIN FILE_CONSTRUCTORS \cup new |->
                    IF k \in new THEN constructor ELSE FILE_CONSTRUCTORS[k]]
           /\ first_reg' =
                [k \in DOMAIN first_reg \cup named |->
                    IF k \in DOMAIN first_reg THEN first_reg[k] ELSE constructor]
    /\ GROUP_LIKE' = GROUP_LIKE \o ensure_iterable(groups).val
    /\ DATASET_LIKE' = DATASET_LIKE \o ensure_iterable(datasets).val
    /\ n_calls' = n_calls + 1
    /\ UNCHANGED <<inputs, mem, pc, err, blocking, n_blocks, task, res_idx, wlog, n_raised>>

\* the module is loaded and no call of apply_operation is in progress
InitReg ==
    /\ x_kind = "ndarray"
    /\ y_kind = "scalar"
    /\ y_scalar = 0
    /\ shape = <<1, 1, 1>>
    /\ y_shape = <<>>
    /\ y_ref = "y"
    /\ block_shape = <<1, 1, 1>>
    /\ has_mask = FALSE
    /\ out_ref = "x"
    /\ operation = "add"
    /\ n_threads = 1
    /\ verbose = FALSE
    /\ mem = [b \in Buffers |-> NoBlock]
    /\ mem0 = mem
    /\ pc = "idle"
    /\ err = "none"
    /\ blocking = NoBlocking
    /\ n_blocks = 0
    /\ task = <<>>
    /\ res_idx = 0
    /\ wlog = {}
    /\ n_raised = 0
    /\ RegistryInit

NextReg ==
    \E c \in Constructors, e \in ExtArgs : register_filetype(c, e, Obj(c), Obj(c))

SpecReg == InitReg /\ [][NextReg]_vars

\* ================================================================ claims
OperandErrors == {"unsupported_operand", "shape_mismatch"}

\* the second operand before the call, at position p
Y0(p) == IF y_kind = "scalar" THEN y_scalar ELSE mem0[y_ref][p]

\* op applied to the operands as whole arrays, at position p
Expected(p) == Operation(operation, mem0["x"][p], Y0(p))

\* the mask is true at position p
MaskTrue(p) == mem0["mask"][p] # 0

\* the call got past the check of the second operand
OperandAccepted == pc \notin {"validate"} /\ err \notin OperandErrors

\* the blocking step of the call is over
BlockingDone == OperandAccepted /\ pc # "blocking" /\ err # "invalid_block_shape"

\* C1 (as claimed): a call without a mask that returns leaves op(x0[p], y[p]) in
\* out at every position p, for every interleaving of the block tasks.
C1_Equivalence ==
    (pc = "returned" /\ ~has_mask) =>
        \A p \in Domain(shape) : mem[out_ref][p] = Expected(p)

\* C2 (as claimed): for every domain shape of any rank and every block shape of
\* the same rank with positive entries, every position of the domain lies in
\* exactly one of the blocks 0..n_blocks-1 the call iterates over.
C2_Partition ==
    BlockingDone =>
        \A p \in Domain(shape) :
            Cardinality({b \in BlockIds : p \in TaskBB(b)}) = 1

\* C3 (as claimed): if the task of any block raises, the call does not return the
\* output handle, with verbose=True and verbose=False alike.
C3_FailurePropagates ==
    (\E b \in DOMAIN task : task[b].pc = "failed") => pc # "returned"

\* the second operand is one the contract rejects
Rejected ==
    \/ y_kind = "other"
    \/ y_kind \in {"ndarray", "dataset"} /\ y_shape # shape

\* nothing has been scheduled, read or written
NoWork ==
    /\ task = <<>>
    /\ blocking = NoBlocking
    /\ wlog = {}
    /\ mem = mem0

\* C4: when the second operand is rejected, the call fails before any block task
\* is scheduled: nothing of x, y or mask has been read and nothing of out written.
C4_EagerValidation ==
    /\ (Rejected /\ pc # "validate") => (pc = "raised" /\ err \in OperandErrors)
    /\ err \in OperandErrors => (pc = "raised" /\ NoWork)

C4_Witness ==
    /\ pc = "raised"
    /\ err = "shape_mismatch"
    /\ y_kind = "ndarray"
    /\ has_mask
    /\ NoWork

\* C5 (as claimed): y is accepted exactly when it is a scalar or an array-like
\* (whatever its backing store) of the shape of x; an array-like of another shape
\* fails with a shape mismatch, every other value with an unsupported operand.
C5_Classification ==
    pc # "validate" =>
        LET arrayLike == y_kind \in {"ndarray", "dataset"}
        IN  /\ (y_kind = "scalar" \/ (arrayLike /\ y_shape = shape)) => err \notin OperandErrors
            /\ (arrayLike /\ y_shape # shape) => err = "shape_mismatch"
            /\ y_kind = "other" => err = "unsupported_operand"

\* the mask has no true position in block b
BlockMaskedOut(b) == has_mask /\ \A p \in TaskBB(b) : ~MaskTrue(p)

\* C6: the task of a block whose mask block has no true position reads only the
\* mask and writes nothing; with a mask that is false everywhere out keeps its
\* pre-call contents, whether out is x or a distinct array.
C6_MaskIdentity ==
    /\ \A b \in DOMAIN task :
          (task[b].pc # "pending" /\ BlockMaskedOut(b)) =>
              /\ task[b].rd \subseteq {"mask"}
              /\ task[b].written = NoBlock
              /\ \A w \in wlog : w.t # b
    /\ (has_mask /\ \A p \in Domain(shape) : ~MaskTrue(p)) =>
          mem[out_ref] = mem0[out_ref]

C6_Witness ==
    /\ pc = "returned"
    /\ has_mask
    /\ \A p \in Domain(shape) : ~MaskTrue(p)
    /\ out_ref = "out"
    /\ n_blocks >= 2
    /\ \A b \in DOMAIN task : task[b].pc = "done" /\ task[b].rd = {"mask"}
    /\ mem["out"] = mem0["out"]
    /\ mem["out"] # mem["x"]

\* C7: for a block with a true mask position, the block written to out holds
\* op(x, y) where the mask is true and the original value of x where it is false.
C7_MaskedMerge ==
    \A b \in DOMAIN task :
        (has_mask /\ task[b].written # NoBlock) =>
            \A p \in TaskBB(b) :
                /\ task[b].written[p] = IF MaskTrue(p) THEN Expected(p) ELSE mem0["x"][p]
                /\ mem[out_ref][p] = task[b].written[p]

C7_Witness ==
    \E b \in DOMAIN task :
        /\ has_mask
        /\ task[b].pc = "done"
        /\ task[b].written # NoBlock
        /\ out_ref = "out"
        /\ \E p, q \in TaskBB(b) :
              /\ MaskTrue(p) /\ ~MaskTrue(q)
              /\ mem["out"][p] = Expected(p) /\ Expected(p) # mem0["x"][p]
              /\ mem["out"][q] = mem0["x"][q]

\* C8 (as claimed): after a call with a mask, every position of out where the
\* mask is false holds the value out had there before the call, for out aliasing
\* x and for a distinct out.
C8_UnmaskedRetained ==
    (has_mask /\ pc = "returned") =>
        \A p \in Domain(shape) : ~MaskTrue(p) => mem[out_ref][p] = mem0[out_ref][p]

\* C9 (as claimed): the call runs exactly one task per block index and returns
\* only after all of them completed: at a normal return no task is pending or
\* running and every block not skipped by the mask has been written to out.
C9_AllBlocksDone ==
    pc = "returned" =>
        /\ DOMAIN task = BlockIds
        /\ \A b \in BlockIds :
              /\ task[b].pc \notin Running \cup {"pending"}
              /\ ~BlockMaskedOut(b) =>
                    /\ task[b].written # NoBlock
                    /\ \A p \in TaskBB(b) : mem[out_ref][p] = task[b].written[p]

\* ceil(a / b) for positive b
CeilDiv(a, b) == (a + b - 1) \div b

\* C10 (as claimed): for a domain shape S and block shape B of any common rank,
\* the number of blocks is the product of ceil(S_i / B_i), blocks are numbered in
\* row-major order of their grid coordinates, and the block at coord has
\* begin = coord_i * B_i and end = min(begin + B_i, S_i) on each axis.
C10_BlockGeometry ==
    BlockingDone =>
        LET grid == [i \in 1..Len(shape) |-> CeilDiv(shape[i], block_shape[i])]
        IN  /\ n_blocks = Product(grid)
            /\ \A coord \in Domain(grid) :
                  LET k == Lin(coord, grid)
                  IN  /\ k \in DOMAIN blocking.blocks
                      /\ \A i \in 1..Len(shape) :
                            /\ blocking.blocks[k].begin[i] = coord[i] * block_shape[i]
                            /\ blocking.blocks[k].end[i] =
                                 Min(coord[i] * block_shape[i] + block_shape[i], shape[i])

\* C11: a block shape with an entry that is zero or negative, or of a rank other
\* than the rank of x.shape, makes the call (its second operand being accepted by
\* the check that runs first) fail with an invalid-block-shape error before any
\* block task is scheduled; no position of out is written.
C11_InvalidBlockShape ==
    (/\ \/ Len(block_shape) # Len(shape)
        \/ \E i \in 1..Len(block_shape) : block_shape[i] <= 0
     /\ OperandAccepted
     /\ pc # "blocking") =>
        /\ pc = "raised"
        /\ err = "invalid_block_shape"
        /\ NoWork

C11_Witness ==
    /\ pc = "raised"
    /\ err = "invalid_block_shape"
    /\ Len(block_shape) = Len(shape)
    /\ \E i \in 1..Len(block_shape) : block_shape[i] < 0
    /\ Len(shape) = Len(RoiBegin)
    /\ out_ref = "out"
    /\ NoWork

\* C12: minimum(x, x), with the second operand and the default output both being
\* x, returns a result equal at every position to the content of x before the
\* call, for every block shape and worker count.
C12_MinimumIdempotent ==
    (operation = "minimum" /\ y_ref = "x" /\ out_ref = "x" /\ pc = "returned") =>
        \A p \in Domain(shape) : mem[out_ref][p] = mem0["x"][p]

C12_Witness ==
    /\ operation = "minimum" /\ y_ref = "x" /\ out_ref = "x"
    /\ pc = "returned"
    /\ n_blocks >= 2
    /\ n_threads >= 2
    /\ \A b \in DOMAIN task : task[b].pc = "done" /\ task[b].written # NoBlock
    /\ mem["x"] = mem0["x"]

\* the block position p lies in
BlockOf(p) == CHOOSE b \in BlockIds : p \in TaskBB(b)

\* the content of out at p after a call in which every task ran to its end
FinalOut(p) ==
    IF ~has_mask THEN Expected(p)
    ELSE IF BlockMaskedOut(BlockOf(p)) THEN mem0[out_ref][p]
    ELSE IF MaskTrue(p) THEN Expected(p)
    ELSE mem0["x"][p]

\* C13 (as claimed): the regions of out written by two distinct tasks are
\* disjoint, each position of out is written at most once per call, no task reads
\* a position of x that another task writes, and every task reads the pre-call
\* value of x at each position of its block.
C13_RaceFree ==
    /\ \A w1, w2 \in wlog :
          (w1.buf = out_ref /\ w2.buf = out_ref /\ w1.pos = w2.pos) => w1 = w2
    /\ \A b \in DOMAIN task : \A w \in wlog :
          (w.buf = "x" /\ w.t # b /\ task[b].pc # "pending") => w.pos \notin TaskBB(b)
    /\ \A b \in DOMAIN task :
          task[b].pc = "apply" => \A p \in TaskBB(b) : XX(b)[p] = mem0["x"][p]

\* C14: for fixed operands, operation, mask, out and block shape, the content of
\* out after a call in which no task fails is the same for every worker count and
\* every interleaving of the block tasks, also when out is x or y.
C14_ScheduleIndependent ==
    (pc = "returned" /\ \A b \in DOMAIN task : task[b].pc # "failed") =>
        \A p \in Domain(shape) : mem[out_ref][p] = FinalOut(p)

C14_Witness ==
    /\ pc = "returned"
    /\ out_ref = "y"
    /\ n_threads >= 2
    /\ n_blocks >= 3
    /\ has_mask
    /\ \A b \in DOMAIN task : task[b].pc = "done"
    /\ \E p, q \in Domain(shape) : mem["y"][p] # mem0["y"][p] /\ mem["y"][q] = mem0["y"][q]
    /\ \A p \in Domain(shape) : mem["y"][p] = FinalOut(p)

\* C15 (as claimed): once the task of one block has raised, no block task that
\* had not yet started is started afterwards.
C15_AbortOnFailure ==
    [][(\E b \in DOMAIN task : task[b].pc = "failed") =>
          \A b \in DOMAIN task :
              task[b].pc = "pending" => task'[b].pc \in {"pending", "cancelled"}]_vars

\* the call has exited
Exited == pc \in {"returned", "raised"}

\* C16: on every exit path, return or exception, the pool of the call has been
\* shut down: no block task is pending or running and no task can read x, y or
\* mask or write out any more.
C16_PoolShutDown ==
    Exited =>
        /\ \A b \in DOMAIN task : task[b].pc \in Final
        /\ ~ENABLED (\E b \in 0..(MaxCells - 1) : TaskBegin(b) \/ TaskApply(b) \/ TaskStore(b))

C16_Witness ==
    /\ pc = "raised"
    /\ err = "block_task_failure"
    /\ \E b \in DOMAIN task : task[b].pc = "cancelled"
    /\ \E b \in DOMAIN task : task[b].pc = "done" /\ task[b].written # NoBlock
    /\ \E b \in DOMAIN task : task[b].pc = "failed"

\* C17: when a call fails because a block task raised, every block whose task
\* completed keeps its computed result in out, every block whose task never wrote
\* keeps its pre-call contents, and every position of out holds its pre-call
\* value or its final result value.
C17_NoRollback ==
    (pc = "raised" /\ err = "block_task_failure") =>
        \A b \in BlockIds : \A p \in TaskBB(b) :
            /\ task[b].written # NoBlock =>
                  /\ mem[out_ref][p] = task[b].written[p]
                  /\ mem[out_ref][p] = FinalOut(p)
            /\ (\A w \in wlog : ~(w.t = b /\ w.buf = out_ref)) =>
                  mem[out_ref][p] = mem0[out_ref][p]
            /\ mem[out_ref][p] \in {mem0[out_ref][p], FinalOut(p)}

C17_Witness ==
    /\ pc = "raised"
    /\ err = "block_task_failure"
    /\ \E b \in BlockIds :
          /\ task[b].pc = "done"
          /\ task[b].written # NoBlock
          /\ \A p \in TaskBB(b) : mem[out_ref][p] # mem0[out_ref][p]
    /\ \E b \in BlockIds :
          /\ task[b].pc \in {"failed", "cancelled"}
          /\ \A p \in TaskBB(b) : mem[out_ref][p] = mem0[out_ref][p]
                                   /\ mem[out_ref][p] # FinalOut(p)

\* C18 (as claimed): with an out distinct from x, the call leaves x, y and mask
\* with their pre-call contents at every position; only out is written.
C18_InputsReadOnly ==
    out_ref = "out" =>
        /\ mem["x"] = mem0["x"]
        /\ mem["y"] = mem0["y"]
        /\ mem["mask"] = mem0["mask"]

\* the mask is true at every position of block b
BlockAllTrue(b) == has_mask /\ \A p \in TaskBB(b) : MaskTrue(p)

\* C19: for a block in which the mask is true everywhere, the block written to out
\* is op applied to the whole sub-block, as in the call with mask=None; a call
\* with a mask that is true everywhere yields the out of the call without a mask.
C19_AllTrueMask ==
    /\ \A b \in DOMAIN task :
          (BlockAllTrue(b) /\ task[b].written # NoBlock) =>
              \A p \in TaskBB(b) :
                  /\ task[b].written[p] = Expected(p)
                  /\ mem[out_ref][p] = Expected(p)
    /\ (/\ has_mask
        /\ \A p \in Domain(shape) : MaskTrue(p)
        /\ pc = "returned"
        /\ \A b \in DOMAIN task : task[b].pc = "done") =>
          \A p \in Domain(shape) : mem[out_ref][p] = Expected(p)

C19_Witness ==
    /\ has_mask
    /\ \A p \in Domain(shape) : MaskTrue(p)
    /\ \E p \in Domain(shape) : mem0["mask"][p] > 1
    /\ pc = "returned"
    /\ n_blocks >= 2
    /\ out_ref = "out"
    /\ \A b \in DOMAIN task : task[b].pc = "done"
    /\ \A p \in Domain(shape) : mem["out"][p] = Expected(p)

\* C20 (as claimed): after any sequence of register_filetype calls, the
\* constructor stored under a lower-cased extension is the one of the first call
\* that named that extension, in any letter case; an entry is never replaced and
\* never removed.
C20_FirstRegistrationWins ==
    /\ DOMAIN FILE_CONSTRUCTORS = DOMAIN first_reg
    /\ \A k \in DOMAIN FILE_CONSTRUCTORS : FILE_CONSTRUCTORS[k] = first_reg[k]

====
